---- MODULE Spec2Model ----
(***************************************************************************)
(* Air-quality notifier (src/app.py): a periodic poll cycle that pushes a  *)
(* webhook notification when the upstream feed carries a new ImportDate,   *)
(* and four HTTP handlers over the same feed.                              *)
(*                                                                         *)
(* JSON field values are modelled as [k, v]: k is the shape of the value   *)
(* ("int" a JSON integer v, "digits" the string of the integer v,          *)
(* "decimal" the string "v.0", "float" the JSON number v + 0.5, "nan" the  *)
(* string "nan", "text" a non-numeric string, "none" JSON null, "missing"  *)
(* an absent key).  Distances are kept in metres (floor of the float       *)
(* kilometres times 1000).  Coordinates are finite or not-a-number;        *)
(* infinite coordinates are outside the modelled domain.                   *)
(***************************************************************************)
EXTENDS Integers, Sequences, FiniteSets

VARIABLES
    last_import,  \* the module global _last_import
    upstream,     \* what a fetch completing now returns: the records, or a failure
    tasks,        \* the coroutines in flight, each suspended in its await of the fetch
    notified,     \* the revisions the poll cycles posted to the webhook, in order
    lastPoll,     \* what the latest step did, when it completed a poll cycle
    run,          \* the latest run of completed poll cycles that fetched one revision
    lastReq       \* what the latest step did, when it answered a request

vars == <<last_import, upstream, tasks, notified, lastPoll, run, lastReq>>

-----------------------------------------------------------------------------
(* Bounds of the model *)

MaxTasks == 2
MaxNotified == 4
MaxRecs == 3

-----------------------------------------------------------------------------
(* Values *)

None == "None"

Val(k, v) == [k |-> k, v |-> v]

Digits(n) == Val("digits", n)

Decimal(n) == Val("decimal", n)

(* non-numeric strings: 0 is "abc", 1 is "N/A", 2 is the empty string *)
Text == Val("text", 0)

Empty == Val("text", 2)

NoneVal == Val("none", 0)

Missing == Val("missing", 0)

NanText == Val("nan", 0)

NA == Val("text", 1)

(* a float: not-a-number, or the number v *)
Float(v) == [nan |-> FALSE, v |-> v]

NaN == [nan |-> TRUE, v |-> 0]

(* a distance: not-a-number, or m metres *)
Metres(m) == [nan |-> FALSE, m |-> m]

NaNDist == [nan |-> TRUE, m |-> 0]

(* dict.get(key, default) *)
get(x, default) == IF x.k = "missing" THEN default ELSE x

-----------------------------------------------------------------------------
(* float(r["latitude"]) inside try/except: the parsed float, or a failure  *)
(* (KeyError for an absent key, TypeError for None, ValueError for text).  *)

float_parse(x) ==
    CASE x.k \in {"int", "digits", "decimal"} -> [ok |-> TRUE, f |-> Float(x.v)]
      [] x.k = "nan" -> [ok |-> TRUE, f |-> NaN]
      [] OTHER -> [ok |-> FALSE, f |-> NaN]

(* haversine on the modelled grid (latitudes 24..26, longitudes one degree *)
(* apart at most): R * 2 * atan2(sqrt(a), sqrt(1-a)) with R = 6371, in     *)
(* metres.  The value depends on the two latitudes and |lon2 - lon1| only  *)
(* and is symmetric in the latitudes, bit for bit.                         *)
GreatCircle(la, lb, dl) ==
    CASE <<la, lb, dl>> = <<24, 24, 0>> -> 0
      [] <<la, lb, dl>> = <<24, 24, 1>> -> 101581
      [] <<la, lb, dl>> = <<24, 25, 0>> -> 111194
      [] <<la, lb, dl>> = <<24, 25, 1>> -> 150339
      [] <<la, lb, dl>> = <<24, 26, 0>> -> 222389
      [] <<la, lb, dl>> = <<24, 26, 1>> -> 244154
      [] <<la, lb, dl>> = <<25, 25, 0>> -> 0
      [] <<la, lb, dl>> = <<25, 25, 1>> -> 100776
      [] <<la, lb, dl>> = <<25, 26, 0>> -> 111194
      [] <<la, lb, dl>> = <<25, 26, 1>> -> 149788
      [] <<la, lb, dl>> = <<26, 26, 0>> -> 0
      [] <<la, lb, dl>> = <<26, 26, 1>> -> 99941

haversine(lat1, lon1, lat2, lon2) ==
    IF lat1.nan \/ lon1.nan \/ lat2.nan \/ lon2.nan
    THEN NaNDist
    ELSE LET la == IF lat1.v <= lat2.v THEN lat1.v ELSE lat2.v
             lb == IF lat1.v <= lat2.v THEN lat2.v ELSE lat1.v
             dl == IF lon2.v >= lon1.v THEN lon2.v - lon1.v ELSE lon1.v - lon2.v
         IN  Metres(GreatCircle(la, lb, dl))

(* d <= max_km (max_km in kilometres); false when either side is nan *)
within_strict(d, max_km) == ~d.nan /\ ~max_km.nan /\ d.m < max_km.v * 1000

within(d, max_km) == ~d.nan /\ ~max_km.nan /\ d.m <= max_km.v * 1000

(* the loop of find_nearest: candidates (ref, d) in input order; ref is    *)
(* the position of the record object in the input list                     *)
RECURSIVE candidates(_, _, _, _, _)
candidates(records, lat, lon, max_km, i) ==
    IF i > Len(records) THEN <<>>
    ELSE LET r == records[i]
             rl == float_parse(r.latitude)
             rn == float_parse(r.longitude)
             rest == candidates(records, lat, lon, max_km, i + 1)
         IN  IF ~rl.ok \/ ~rn.ok THEN rest
             ELSE LET d == haversine(lat, lon, rl.f, rn.f)
                  IN  IF within(d, max_km)
                      THEN <<[ref |-> i, d |-> d.m]>> \o rest
                      ELSE rest

(* list.sort(key=distance): a stable sort, here by insertion *)
RECURSIVE insert_first(_, _)
insert_first(c, sorted) ==
    IF sorted = <<>> THEN <<c>>
    ELSE IF Head(sorted).d < c.d
         THEN <<Head(sorted)>> \o insert_first(c, Tail(sorted))
         ELSE <<c>> \o sorted

RECURSIVE sort_unstable(_)
sort_unstable(cands) ==
    IF cands = <<>> THEN <<>>
    ELSE LET n == Len(cands)
         IN  insert_first(cands[n], sort_unstable(SubSeq(cands, 1, n - 1)))

RECURSIVE insert_last(_, _)
insert_last(c, sorted) ==
    IF sorted = <<>> THEN <<c>>
    ELSE IF Head(sorted).d <= c.d
         THEN <<Head(sorted)>> \o insert_last(c, Tail(sorted))
         ELSE <<c>> \o sorted

RECURSIVE sort(_)
sort(cands) ==
    IF cands = <<>> THEN <<>>
    ELSE LET n == Len(cands)
         IN  insert_last(cands[n], sort(SubSeq(cands, 1, n - 1)))

nearest_refs(records, lat, lon, max_km) ==
    LET s == sort(candidates(records, lat, lon, max_km, 1))
    IN  [j \in 1..Len(s) |-> s[j].ref]

find_nearest(records, lat, lon, max_km) ==
    LET refs == nearest_refs(records, lat, lon, max_km)
    IN  [j \in 1..Len(refs) |-> records[refs[j]]]

-----------------------------------------------------------------------------
(* build_embed *)

(* int(aqi) inside try/except: the integer, or None (ok = FALSE).  A JSON  *)
(* float is truncated toward zero; a string must be an integer literal.    *)
int_parse(aqi) ==
    CASE aqi.k \in {"int", "digits"} -> [ok |-> TRUE, n |-> aqi.v]
      [] aqi.k = "float" ->
            [ok |-> TRUE, n |-> IF aqi.v >= 0 THEN aqi.v ELSE aqi.v + 1]
      [] OTHER -> [ok |-> FALSE, n |-> 0]

(* the if/elif chain on aqi_val: remark and colour (0xRRGGBB) *)
classify_exclusive(aqi_val) ==
    IF ~aqi_val.ok THEN [remark |-> "no data", color |-> 8421504]
    ELSE IF aqi_val.n < 50 THEN [remark |-> "good", color |-> 32768]
    ELSE IF aqi_val.n < 100 THEN [remark |-> "moderate", color |-> 16776960]
    ELSE IF aqi_val.n < 150 THEN [remark |-> "sensitive", color |-> 16753920]
    ELSE IF aqi_val.n < 200 THEN [remark |-> "unhealthy", color |-> 16711680]
    ELSE IF aqi_val.n < 300 THEN [remark |-> "very unhealthy", color |-> 8388736]
    ELSE [remark |-> "hazardous", color |-> 10824234]

classify(aqi_val) ==
    IF ~aqi_val.ok THEN [remark |-> "no data", color |-> 8421504]
    ELSE IF aqi_val.n <= 50 THEN [remark |-> "good", color |-> 32768]
    ELSE IF aqi_val.n <= 100 THEN [remark |-> "moderate", color |-> 16776960]
    ELSE IF aqi_val.n <= 150 THEN [remark |-> "sensitive", color |-> 16753920]
    ELSE IF aqi_val.n <= 200 THEN [remark |-> "unhealthy", color |-> 16711680]
    ELSE IF aqi_val.n <= 300 THEN [remark |-> "very unhealthy", color |-> 8388736]
    ELSE [remark |-> "hazardous", color |-> 10824234]

(* the payload: the embed's colour, the city, the AQI field value and the  *)
(* remark field (the other fields are data.get(key, "N/A") pass-throughs)  *)
build_embed(data) ==
    LET aqi == get(data.aqi, NA)
        c == classify(int_parse(aqi))
    IN  [color |-> c.color,
         city |-> <<data.county, data.sitename>>,
         aqi |-> aqi,
         remark |-> c.remark]

-----------------------------------------------------------------------------
(* Records, feeds and requests *)

Revisions == {"r1", "r2"}

Station(county, sitename, latitude, longitude, aqi, rev) ==
    [county |-> county, sitename |-> sitename, latitude |-> latitude,
     longitude |-> longitude, aqi |-> aqi, ImportDate |-> rev]

StA(rev) == Station("Taipei", "Zhongshan", Decimal(25), Decimal(121), Digits(42), rev)

StB(rev) == Station("Yilan", "Dongshan", Decimal(25), Decimal(122), Digits(120), rev)

(* the stations of the matching inputs: two at the same distance from      *)
(* either query point, one out of every radius, three without a usable     *)
(* coordinate (text, absent key, "nan")                                    *)
Stations ==
    { StA("r1"), StB("r1"),
      Station("Nantou", "Puli", Decimal(24), Decimal(121), Digits(42), "r1"),
      Station("Lienchiang", "Matsu", Decimal(26), Digits(121), Digits(42), "r1"),
      Station("Hualien", "Hualien", Digits(24), Decimal(122), Digits(42), "r1"),
      Station("Penghu", "Magong", Text, Decimal(121), Digits(42), "r1"),
      Station("Kinmen", "Kinmen", Decimal(25), Missing, Digits(42), "r1"),
      Station("Taitung", "Lanyu", NanText, Decimal(121), Digits(42), "r1") }

AqiNumbers == {-5, 0, 50, 51, 100, 101, 150, 151, 200, 201, 300, 301, 1000}

AqiValues ==
    { Val(k, n) : k \in {"int", "digits", "decimal", "float"}, n \in AqiNumbers }
        \cup {Text, Empty, NoneVal, Missing}

QueryPoints == { <<Float(25), Float(121)>>, <<Float(24), Float(122)>> }

KmValues == { Float(0), Float(5), Float(120) }

Selections == { <<"Taipei", "Zhongshan">>, <<"Taipei", "Dongshan">> }

(* fetch_all_records: the records of the response, or the exception raised *)
Ok(records) == [status |-> "ok", records |-> records]

Failed(exc) == [status |-> exc, records |-> <<>>]

FetchFailures == {"HTTPStatusError", "ConnectError"}

DeliveryOutcomes == {"ok", "HTTPError"}

(* what the polling model's upstream serves: nothing, or both stations     *)
(* stamped with one revision, or a failure                                 *)
MainFeeds == { <<>> } \cup { <<StA(r), StB(r)>> : r \in Revisions }

MainUpstream == { Ok(f) : f \in MainFeeds } \cup { Failed(e) : e \in FetchFailures }

AllFeeds == UNION { [1..n -> Stations] : n \in 0..MaxRecs }

AqiFeeds == { <<Station("Taipei", "Zhongshan", Decimal(25), Decimal(121), a, "r1")>> :
                a \in AqiValues }

(* what the handler model's upstream serves *)
AllUpstream ==
    { Ok(f) : f \in AllFeeds \cup AqiFeeds } \cup { Failed(e) : e \in FetchFailures }

-----------------------------------------------------------------------------
(* Tasks on the event loop: poll cycles and request handlers.  A task in   *)
(* flight is suspended in "await fetch_all_records()", the only await of   *)
(* each coroutine; it resumes with what the fetch returned and then runs   *)
(* to its end in one step of the event loop.                               *)

Tasks == 1..MaxTasks

Handlers == {"stations", "stations_nearby", "auto_notify", "send_message"}

Task(kind, lat, lon, km, county, sitename) ==
    [kind |-> kind, lat |-> lat, lon |-> lon, km |-> km,
     county |-> county, sitename |-> sitename]

Idle == Task("idle", Float(0), Float(0), Float(0), "", "")

PollTask == Task("check_and_notify", Float(0), Float(0), Float(0), "", "")

(* the requests of the polling model *)
MainRequests ==
    { Task("stations", Float(0), Float(0), Float(0), "", ""),
      Task("stations_nearby", Float(25), Float(121), Float(5), "", ""),
      Task("auto_notify", Float(25), Float(121), Float(5), "", ""),
      Task("send_message", Float(0), Float(0), Float(0), "Taipei", "Zhongshan") }

(* the requests of the handler model *)
AllRequests ==
    { Task("stations", Float(0), Float(0), Float(0), "", "") }
    \cup
    { Task(kind, q[1], q[2], km, "", "") :
        kind \in {"stations_nearby", "auto_notify"}, q \in QueryPoints, km \in KmValues }
    \cup
    { Task("send_message", Float(0), Float(0), Float(0), sel[1], sel[2]) :
        sel \in Selections }

NoPoll ==
    [fetch |-> "-", before |-> None, newest |-> None, after |-> None,
     attempted |-> FALSE, delivered |-> FALSE, escaped |-> FALSE]

(* rev: the revision the cycles of the run fetched; fresh: the first of    *)
(* them found another value stored; several: the run has two cycles or     *)
(* more; sends: the posts they attempted; peers: the poll tasks that were  *)
(* in flight when the latest of them completed and still are; overlapped:  *)
(* a cycle of the run was in flight when the one before it completed       *)
NoRun ==
    [rev |-> None, fresh |-> FALSE, several |-> FALSE, sends |-> 0,
     overlapped |-> FALSE, peers |-> {}]

NoReq ==
    [req |-> Idle, resp |-> Failed("-"), status |-> 0, body |-> <<>>, notify |-> <<>>,
     before |-> None, after |-> None]

-----------------------------------------------------------------------------
(* The poll cycle *)

(* "except Exception": every failure of the fetch and of the delivery is   *)
(* an Exception                                                            *)
caught_status_only(exc) == exc = "HTTPStatusError"

caught(exc) == exc \in FetchFailures \cup {"HTTPError"}

(* newest != _last_import *)
is_new_always(newest, stored) == TRUE

is_new(newest, stored) == newest # stored

(* check_and_notify without the store: _last_import keeps its value *)
check_and_notify_body_unstored(resp, stored, delivery) ==
    IF resp.status # "ok"
    THEN [stored |-> stored, sent |-> <<>>, raised |-> resp.status]
    ELSE IF resp.records = <<>>
    THEN [stored |-> stored, sent |-> <<>>, raised |-> "-"]
    ELSE LET newest == resp.records[1].ImportDate
         IN  IF is_new(newest, stored)
             THEN [stored |-> stored,
                   sent |-> <<[rev |-> newest,
                               payload |-> build_embed(resp.records[1]),
                               delivered |-> delivery = "ok"]>>,
                   raised |-> IF delivery = "ok" THEN "-" ELSE delivery]
             ELSE [stored |-> stored, sent |-> <<>>, raised |-> "-"]

(* check_and_notify storing the revision only after a successful delivery *)
check_and_notify_body_store_last(resp, stored, delivery) ==
    IF resp.status # "ok"
    THEN [stored |-> stored, sent |-> <<>>, raised |-> resp.status]
    ELSE IF resp.records = <<>>
    THEN [stored |-> stored, sent |-> <<>>, raised |-> "-"]
    ELSE LET newest == resp.records[1].ImportDate
         IN  IF is_new(newest, stored)
             THEN [stored |-> IF delivery = "ok" THEN newest ELSE stored,
                   sent |-> <<[rev |-> newest,
                               payload |-> build_embed(resp.records[1]),
                               delivered |-> delivery = "ok"]>>,
                   raised |-> IF delivery = "ok" THEN "-" ELSE delivery]
             ELSE [stored |-> stored, sent |-> <<>>, raised |-> "-"]

(* check_and_notify from the return of the await to its end: the value     *)
(* _last_import ends with, the webhook posts attempted, and the exception  *)
(* raised inside the try block ("-": none)                                 *)
check_and_notify_body(resp, stored, delivery) ==
    IF resp.status # "ok"
    THEN [stored |-> stored, sent |-> <<>>, raised |-> resp.status]
    ELSE IF resp.records = <<>>
    THEN [stored |-> stored, sent |-> <<>>, raised |-> "-"]
    ELSE LET newest == resp.records[1].ImportDate
         IN  IF is_new(newest, stored)
             THEN [stored |-> newest,
                   sent |-> <<[rev |-> newest,
                               payload |-> build_embed(resp.records[1]),
                               delivered |-> delivery = "ok"]>>,
                   raised |-> IF delivery = "ok" THEN "-" ELSE delivery]
             ELSE [stored |-> stored, sent |-> <<>>, raised |-> "-"]

PollTasks == { t \in Tasks : tasks[t].kind = "check_and_notify" }

(* the revision of the first record of a response (None: no first record) *)
Newest(resp) ==
    IF resp.status = "ok" /\ resp.records # <<>>
    THEN resp.records[1].ImportDate
    ELSE None

(* the upstream publishes another snapshot, or starts or stops failing *)
upstream_changes ==
    /\ \E resp \in MainUpstream \ {upstream} : upstream' = resp
    /\ lastPoll' = NoPoll
    /\ lastReq' = NoReq
    /\ UNCHANGED <<last_import, tasks, notified, run>>

(* start_scheduler's job: lambda: asyncio.create_task(check_and_notify()). *)
(* The job returns at once; the new task runs up to its await.             *)
start_scheduler(t) ==
    /\ tasks[t] = Idle
    /\ Len(notified) + Cardinality(PollTasks) < MaxNotified
    /\ tasks' = [tasks EXCEPT ![t] = PollTask]
    /\ lastPoll' = NoPoll
    /\ lastReq' = NoReq
    /\ UNCHANGED <<last_import, upstream, notified, run>>

(* an HTTP request arrives: its handler runs up to its await *)
Request(t) ==
    /\ tasks[t] = Idle
    /\ \E req \in MainRequests : tasks' = [tasks EXCEPT ![t] = req]
    /\ lastPoll' = NoPoll
    /\ lastReq' = NoReq
    /\ UNCHANGED <<last_import, upstream, notified, run>>

check_and_notify(t) ==
    /\ tasks[t].kind = "check_and_notify"
    /\ \E delivery \in DeliveryOutcomes :
          LET resp == upstream
              c == check_and_notify_body(resp, last_import, delivery)
              newest == Newest(resp)
              attempted == c.sent # <<>>
              peers == PollTasks \ {t}
          IN
          /\ last_import' = c.stored
          /\ notified' = notified \o [j \in 1..Len(c.sent) |-> c.sent[j].rev]
          /\ tasks' = [tasks EXCEPT ![t] = Idle]
          /\ lastPoll' =
                [fetch |-> IF resp.status # "ok" THEN resp.status
                           ELSE IF resp.records = <<>> THEN "empty" ELSE "ok",
                 before |-> last_import,
                 newest |-> newest,
                 after |-> c.stored,
                 attempted |-> attempted,
                 delivered |-> attempted /\ c.sent[1].delivered,
                 escaped |-> c.raised # "-" /\ ~caught(c.raised)]
          /\ run' =
                IF newest = None THEN [run EXCEPT !.peers = @ \ {t}]
                ELSE IF run.rev = newest
                THEN [run EXCEPT !.several = TRUE,
                                 !.sends = @ + Len(c.sent),
                                 !.overlapped = @ \/ t \in run.peers,
                                 !.peers = peers]
                ELSE [rev |-> newest, fresh |-> newest # last_import,
                      several |-> FALSE, sends |-> Len(c.sent),
                      overlapped |-> FALSE, peers |-> peers]
          /\ lastReq' = NoReq
          /\ UNCHANGED upstream

-----------------------------------------------------------------------------
(* The request handlers, each from the return of its await to its response *)
(* (500: the exception left the handler)                                   *)

Response(status, body, notify) == [status |-> status, body |-> body, notify |-> notify]

Post(station, delivery) ==
    <<[station |-> station, payload |-> build_embed(station),
       delivered |-> delivery = "ok"]>>

Message(station) ==
    [county |-> station.county, sitename |-> station.sitename,
     aqi |-> get(station.aqi, NA)]

stations_body(req, resp) ==
    IF resp.status # "ok" THEN Response(500, <<>>, <<>>)
    ELSE LET recs == resp.records
         IN  Response(200,
                      [j \in 1..Len(recs) |->
                          [county |-> recs[j].county, sitename |-> recs[j].sitename,
                           lat |-> get(recs[j].latitude, NoneVal),
                           lon |-> get(recs[j].longitude, NoneVal)]],
                      <<>>)

stations_nearby_body(req, resp) ==
    IF resp.status # "ok" THEN Response(500, <<>>, <<>>)
    ELSE LET near == find_nearest(resp.records, req.lat, req.lon, req.km)
         IN  Response(200,
                      [j \in 1..Len(near) |->
                          [county |-> near[j].county, sitename |-> near[j].sitename]],
                      <<>>)

auto_notify_body(req, resp, delivery) ==
    IF resp.status # "ok" THEN Response(500, <<>>, <<>>)
    ELSE LET near == find_nearest(resp.records, req.lat, req.lon, req.km)
         IN  IF near = <<>> THEN Response(404, <<req.km>>, <<>>)
             ELSE IF delivery # "ok"
                  THEN Response(500, <<>>, Post(near[1], delivery))
                  ELSE Response(200, <<Message(near[1])>>, Post(near[1], delivery))

(* next(r for r in recs if county and sitename match, None) *)
RECURSIVE first_match(_, _, _, _)
first_match(recs, county, sitename, i) ==
    IF i > Len(recs) THEN 0
    ELSE IF recs[i].county = county /\ recs[i].sitename = sitename THEN i
    ELSE first_match(recs, county, sitename, i + 1)

send_message_body(req, resp, delivery) ==
    IF resp.status # "ok" THEN Response(500, <<>>, <<>>)
    ELSE LET recs == resp.records
             m == first_match(recs, req.county, req.sitename, 1)
         IN  IF m = 0 THEN Response(404, <<<<req.county, req.sitename>>>>, <<>>)
             ELSE IF delivery # "ok"
                  THEN Response(500, <<>>, Post(recs[m], delivery))
                  ELSE Response(200, <<Message(recs[m])>>, Post(recs[m], delivery))

(* the handler of task t responds *)
Respond(t, out) ==
    /\ tasks' = [tasks EXCEPT ![t] = Idle]
    /\ lastReq' = [req |-> tasks[t], resp |-> upstream, status |-> out.status,
                   body |-> out.body, notify |-> out.notify,
                   before |-> last_import, after |-> last_import']
    /\ lastPoll' = NoPoll
    /\ UNCHANGED <<upstream, notified, run>>

stations(t) ==
    /\ tasks[t].kind = "stations"
    /\ last_import' = last_import
    /\ Respond(t, stations_body(tasks[t], upstream))

stations_nearby(t) ==
    /\ tasks[t].kind = "stations_nearby"
    /\ last_import' = last_import
    /\ Respond(t, stations_nearby_body(tasks[t], upstream))

auto_notify(t) ==
    /\ tasks[t].kind = "auto_notify"
    /\ last_import' = last_import
    /\ \E delivery \in DeliveryOutcomes :
          Respond(t, auto_notify_body(tasks[t], upstream, delivery))

(* a send_message that goes through the freshness check of the poll cycle *)
send_message_fresh(t) ==
    /\ tasks[t].kind = "send_message"
    /\ \E delivery \in DeliveryOutcomes :
          LET out == send_message_body(tasks[t], upstream, delivery)
              new == out.notify # <<>>
                        /\ out.notify[1].station.ImportDate # last_import
          IN  /\ last_import' = IF new THEN out.notify[1].station.ImportDate
                                ELSE last_import
              /\ Respond(t, IF new \/ out.notify = <<>> THEN out
                            ELSE Response(200, out.body, <<>>))

send_message(t) ==
    /\ tasks[t].kind = "send_message"
    /\ last_import' = last_import
    /\ \E delivery \in DeliveryOutcomes :
          Respond(t, send_message_body(tasks[t], upstream, delivery))

-----------------------------------------------------------------------------
(* The polling model: the upstream changing, the scheduler's ticks,        *)
(* requests arriving and tasks resuming, in any order                      *)

Init ==
    /\ last_import = None
    /\ upstream \in MainUpstream
    /\ tasks = [t \in Tasks |-> Idle]
    /\ notified = <<>>
    /\ lastPoll = NoPoll
    /\ run = NoRun
    /\ lastReq = NoReq

Next ==
    \/ upstream_changes
    \/ \E t \in Tasks :
        \/ start_scheduler(t)
        \/ Request(t)
        \/ check_and_notify(t)
        \/ stations(t)
        \/ stations_nearby(t)
        \/ auto_notify(t)
        \/ send_message(t)

Spec == Init /\ [][Next]_vars

(* The handler model: one request against any upstream snapshot *)

InitHandlers ==
    /\ last_import = None
    /\ upstream \in AllUpstream
    /\ \E req \in AllRequests : tasks = [t \in Tasks |-> IF t = 1 THEN req ELSE Idle]
    /\ notified = <<>>
    /\ lastPoll = NoPoll
    /\ run = NoRun
    /\ lastReq = NoReq

NextHandlers ==
    \E t \in Tasks :
        \/ stations(t)
        \/ stations_nearby(t)
        \/ auto_notify(t)
        \/ send_message(t)

SpecHandlers == InitHandlers /\ [][NextHandlers]_vars

-----------------------------------------------------------------------------
(* Properties of the poll cycle (checked under Spec) *)

Count(r) == Cardinality({ i \in 1..Len(notified) : notified[i] = r })

(* C1 as stated: over any sequence of poll cycles, whatever order the      *)
(* upstream revisions arrive in, every revision value is notified by the   *)
(* poll cycles at most once.                                               *)
C1_AtMostOncePerRevision == \A r \in Revisions : Count(r) <= 1

(* C1 amended: two consecutive notifications of the poll cycles are never  *)
(* for the same revision, and the revision notified last is the stored     *)
(* last-seen value: a revision is notified once each time it replaces a    *)
(* different stored value.                                                 *)
C1_OncePerChange ==
    /\ \A i \in 1..(Len(notified) - 1) : notified[i] # notified[i + 1]
    /\ notified # <<>> => last_import = notified[Len(notified)]

(* a revision was notified, replaced by another, and notified again *)
C1_Witness ==
    /\ Len(notified) >= 3
    /\ notified[1] = notified[3]
    /\ notified[1] # notified[2]

(* C2: in a poll cycle that fetched a non-empty record set, a notification *)
(* is attempted and the first record's revision stored if and only if it   *)
(* differs from the stored value; with nothing stored yet the cycle always *)
(* notifies; a cycle that repeats the revision of the cycle before it      *)
(* sends nothing and leaves the stored value unchanged.                    *)
C2_FreshnessCheck ==
    lastPoll.fetch = "ok" =>
        /\ lastPoll.attempted <=> lastPoll.newest # lastPoll.before
        /\ lastPoll.attempted =>
              /\ lastPoll.after = lastPoll.newest
              /\ last_import = lastPoll.newest
              /\ notified # <<>>
              /\ notified[Len(notified)] = lastPoll.newest
        /\ ~lastPoll.attempted =>
              /\ lastPoll.after = lastPoll.before
              /\ last_import = lastPoll.before
        /\ lastPoll.before = None => lastPoll.attempted
        /\ run.several => ~lastPoll.attempted /\ lastPoll.after = lastPoll.before

(* the first cycle of a run notified, the repeated one did not *)
C2_Witness ==
    /\ lastPoll.fetch = "ok"
    /\ run.several
    /\ run.fresh
    /\ run.sends = 1
    /\ ~lastPoll.attempted
    /\ lastPoll.before = lastPoll.newest

(* C3: a poll cycle whose fetch fails or returns no record sends nothing,  *)
(* leaves the stored value as it was, and lets no exception escape.        *)
C3_FailedFetchIsSkipped ==
    lastPoll.fetch \in FetchFailures \cup {"empty"} =>
        /\ ~lastPoll.attempted
        /\ lastPoll.after = lastPoll.before
        /\ last_import = lastPoll.before
        /\ ~lastPoll.escaped

(* a fetch failed by a connection error while a revision was stored *)
C3_Witness ==
    /\ lastPoll.fetch = "ConnectError"
    /\ lastPoll.before \in Revisions
    /\ last_import = lastPoll.before

(* C4 as stated: when the delivery fails in a poll cycle, the stored value *)
(* after the cycle equals the value before it, and the failure does not    *)
(* leave the cycle.                                                        *)
C4_FailedDeliveryNoSideEffect ==
    (lastPoll.attempted /\ ~lastPoll.delivered) =>
        /\ lastPoll.after = lastPoll.before
        /\ ~lastPoll.escaped

(* C9 as stated: at most one check_and_notify is in progress at any time.  *)
C9_NoOverlap == Cardinality(PollTasks) <= 1

(* C10: the poll cycles of a run (consecutive completions that fetched the *)
(* same revision, in flight together or not) attempt exactly one           *)
(* notification when the first of them found a different value stored, and *)
(* none otherwise.                                                         *)
C10_ExactlyOneSends ==
    run.rev # None => run.sends = (IF run.fresh THEN 1 ELSE 0)

(* two cycles in flight together fetched the same new revision; one sent *)
C10_Witness ==
    /\ run.several
    /\ run.overlapped
    /\ run.fresh
    /\ run.sends = 1
    /\ lastPoll.fetch = "ok"
    /\ ~lastPoll.attempted

-----------------------------------------------------------------------------
(* Properties of the request handlers *)

(* the request answered by the latest step, and what its fetch returned *)
Recs == lastReq.resp.records

(* float() accepts the value: a number, a numeric string, or "nan" *)
Parses(x) == x.k \in {"int", "digits", "decimal", "nan"}

Dist(i) == haversine(lastReq.req.lat, lastReq.req.lon,
                     float_parse(Recs[i].latitude).f, float_parse(Recs[i].longitude).f)

(* the records with coordinates that parse, at most km away *)
InRange ==
    { i \in 1..Len(Recs) :
        /\ Parses(Recs[i].latitude)
        /\ Parses(Recs[i].longitude)
        /\ ~Dist(i).nan
        /\ Dist(i).m <= lastReq.req.km.v * 1000 }

(* i comes before j: nearer, or as near and earlier in the input *)
Before(i, j) == Dist(i).m < Dist(j).m \/ (Dist(i).m = Dist(j).m /\ i < j)

(* the records in range, nearest first, ties in input order *)
Ranked ==
    [p \in 1..Cardinality(InRange) |->
        CHOOSE i \in InRange : Cardinality({ j \in InRange : Before(j, i) }) = p - 1]

Matching ==
    { i \in 1..Len(Recs) :
        Recs[i].county = lastReq.req.county /\ Recs[i].sitename = lastReq.req.sitename }

(* what the latest step did when it answered a request: the stored value   *)
(* is as it was, and a request with a matching station attempted one post  *)
C5_State ==
    lastReq.req.kind \in Handlers =>
        /\ lastReq.after = lastReq.before
        /\ last_import = lastReq.before
        /\ (lastReq.resp.status = "ok" /\ lastReq.req.kind = "auto_notify"
                /\ InRange # {}) => Len(lastReq.notify) = 1
        /\ (lastReq.resp.status = "ok" /\ lastReq.req.kind = "send_message"
                /\ Matching # {}) => Len(lastReq.notify) = 1

(* C5: no handler changes the stored last-seen value (it changes only in a *)
(* step that completes a poll cycle), and auto_notify and send_message     *)
(* with a matching station attempt a notification whatever the stored      *)
(* value is.                                                               *)
C5_HandlersLeaveFreshness ==
    /\ []C5_State
    /\ [][last_import' # last_import =>
            \E t \in Tasks : tasks[t].kind = "check_and_notify" /\ tasks'[t] = Idle]_vars

(* send_message notified a station whose revision is the stored value,     *)
(* while a poll cycle was in flight                                        *)
C5_Witness ==
    /\ lastReq.req.kind = "send_message"
    /\ Len(lastReq.notify) = 1
    /\ lastReq.notify[1].station.ImportDate = last_import
    /\ PollTasks # {}

Upper == <<50, 100, 150, 200, 300>>

Bucket(n) == 1 + Cardinality({ i \in 1..5 : n > Upper[i] })

BucketColor == <<32768, 16776960, 16753920, 16711680, 8388736, 10824234>>

BucketRemark == <<"good", "moderate", "sensitive", "unhealthy", "very unhealthy", "hazardous">>

(* C8: the payload of every notification carries exactly one of the seven  *)
(* buckets: grey "no data" when the AQI is missing or does not parse as an *)
(* integer; otherwise the first bucket, in ascending order, whose upper    *)
(* bound (50, 100, 150, 200, 300, inclusive) the integer does not exceed,  *)
(* brown above 300.  A fractional JSON number counts by its integer part.  *)
C8_Buckets ==
    \A k \in 1..Len(lastReq.notify) :
        LET aqi == lastReq.notify[k].station.aqi
            pay == lastReq.notify[k].payload
        IN  IF aqi.k \in {"int", "digits", "float"}
            THEN /\ pay.color = BucketColor[Bucket(aqi.v)]
                 /\ pay.remark = BucketRemark[Bucket(aqi.v)]
            ELSE /\ pay.color = 8421504
                 /\ pay.remark = "no data"

(* an AQI of exactly 100, given as a string, was classified yellow *)
C8_Witness ==
    /\ lastReq.req.kind = "send_message"
    /\ Len(lastReq.notify) = 1
    /\ lastReq.notify[1].station.aqi = Digits(100)
    /\ lastReq.notify[1].payload.color = 16776960

====
